---- MODULE Spec2Model ----
(***************************************************************************)
(* The annotated record store of image_annotation/annotation_database.py:  *)
(* a folder of container files (image + embedded record), a TinyDB index   *)
(* over it, a dirty flag and a bounded cache of path-query results.        *)
(*                                                                         *)
(* Strings are sequences of tokens (<<"a", ".jpg">> is "a.jpg"), so that   *)
(* split(';'), the extension test and the source identifier are computed.  *)
(***************************************************************************)
EXTENDS Integers, Sequences, FiniteSets, TLC

VARIABLES
    folder,     \* the image folder: container filename -> file content
    db,         \* the TinyDB table, in insertion order: <<[doc_id, filename, data]>>
    cache,      \* _query_cache, least recently used first: <<[key, value]>>
    dirty,      \* _cache_dirty
    last        \* the last call made by the caller and what it returned

vars == <<folder, db, cache, dirty, last>>

----------------------------------------------------------------------------
(* Bounds of the model *)

\* files hashed are the two-byte files and the files of MaxFileLen bytes
MaxFileLen == 8
\* the byte_sampling_threshold the files are hashed with (100000 by default)
byte_sampling_threshold == 6
\* images are 0..MaxImage
MaxImage == 1
\* the path queries issued are the first NumQueryInputs of QueryList
NumQueryInputs == 4

\* the store handles hold_annotation_db_singleton constructs in a run
MaxHolds == 4

----------------------------------------------------------------------------
(* basic_utils.py *)

IMAGE_FILE_EXTENSIONS == {".jpg", ".jpeg", ".png", ".tiff"}

\* the last token of a path is its extension; a one-token path has none
SplitExt(path) ==
    IF Len(path) >= 2 /\ path[Len(path)] \in (IMAGE_FILE_EXTENSIONS \cup {".mov"})
    THEN <<SubSeq(path, 1, Len(path) - 1), path[Len(path)]>>
    ELSE <<path, "">>

is_image_path(path) == SplitExt(path)[2] \in IMAGE_FILE_EXTENSIONS

----------------------------------------------------------------------------
(* The records saved, and the source files that exist on disk *)

PathA == <<"a", ".jpg">>
PathB == <<"b", ".mov">>
PathC == <<"c", ".jpg">>

\* Optional[List[Annotation]]: None, or a list of annotation labels
NoAnnotations == [isNone |-> TRUE, items |-> <<>>]
AnnotationList(items) == [isNone |-> FALSE, items |-> items]

FrameSourceInfo(source_file, source_index, annotations) ==
    [source_file |-> source_file, source_index |-> source_index, annotations |-> annotations]

\* a still image, and frames 0 and 1 of a video: frame 0 in two versions,
\* frame 1 also with the annotations left at their default
Records == {FrameSourceInfo(PathA, 0, AnnotationList(<<>>)),
            FrameSourceInfo(PathB, 0, AnnotationList(<<>>)),
            FrameSourceInfo(PathB, 0, AnnotationList(<<"person">>)),
            FrameSourceInfo(PathB, 1, AnnotationList(<<>>)),
            FrameSourceInfo(PathB, 1, NoAnnotations)}

Images == 0 .. MaxImage

\* the source files present on disk, and the image each decodes to
SourceFilesOnDisk == {PathA}
SourceImage(path) == 0

----------------------------------------------------------------------------
(* Hashing (artemis compute_fixed_hash): deterministic, taken collision-free *)

Tokens == <<"a", "b", "c", ".jpg", ".mov", ".tiff", ".ann", ":", ";", "_", "0", "1",
            "None", "[", "person", "file", "n">>

TokenCode(t) == CHOOSE i \in 1 .. Len(Tokens) : Tokens[i] = t

RECURSIVE compute_fixed_hash(_)
compute_fixed_hash(s) ==
    IF s = <<>> THEN 0
    ELSE compute_fixed_hash(SubSeq(s, 1, Len(s) - 1)) * 32 + TokenCode(s[Len(s)])

get_source_identifier(fsi) == fsi.source_file \o <<":", ToString(fsi.source_index)>>

get_fixed_hash_from_frame_source_info(source_identifier) == compute_fixed_hash(source_identifier)

\* compute_fixed_hash(frame_source_info, try_objects=True): every field counts
ObjectHash(fsi) ==
    compute_fixed_hash(get_source_identifier(fsi)
                       \o <<IF fsi.annotations.isNone THEN "None" ELSE "[">>
                       \o fsi.annotations.items)

----------------------------------------------------------------------------
(* serialization.py: DataClassWithNumpyPreSerializer on FrameSourceInfo *)

FieldNames == {"source_file", "source_index", "annotations"}

FieldDefault(k) ==
    CASE k = "source_index" -> 0
      [] k = "annotations" -> NoAnnotations
      [] OTHER -> <<>>

\* a dataclass becomes the mapping of its fields
Serialize(fsi) == [k \in FieldNames |-> fsi[k]]

\* dict_to_dataclass: the fields present in the mapping, defaults for the
\* rest, keys that are no field ignored
Deserialize(d) == [k \in FieldNames |-> IF k \in DOMAIN d THEN d[k] ELSE FieldDefault(k)]

----------------------------------------------------------------------------
(* FrameSourceInfoAndImage: the container file *)

fsii_version == 1

we_can_just_copy_the_file(fsi) ==
    is_image_path(fsi.source_file) /\ fsi.source_file \in SourceFilesOnDisk

\* basename of the path save_to_image_file returns
ImageFileName(fsi) ==
    LET source_reference_hash ==
            IF fsi.source_file \in SourceFilesOnDisk
            THEN compute_fixed_hash(<<"file">> \o fsi.source_file)
            ELSE compute_fixed_hash(get_source_identifier(fsi))
        remainder_hash == ObjectHash(fsi)
        source_file_name == SplitExt(fsi.source_file)[1]
        extensionless ==
            <<source_reference_hash, remainder_hash, "_">> \o source_file_name
            \o (IF is_image_path(fsi.source_file) THEN <<>>
                ELSE <<"_", ToString(fsi.source_index)>>)
    IN  IF we_can_just_copy_the_file(fsi)
        THEN extensionless \o <<".ann", SplitExt(fsi.source_file)[2]>>
        ELSE extensionless \o <<".ann", ".tiff">>

\* what save_to_image_file writes at that path: the record as JSON payload
\* (plus the format version) and the pixels, those of the source file when
\* the file is copied
ImageFileContent(fsi, image) ==
    [payload |-> ("_fsii_version" :> fsii_version) @@ Serialize(fsi),
     image   |-> IF we_can_just_copy_the_file(fsi) THEN SourceImage(fsi.source_file) ELSE image]

\* load_from_image_file on a file content
load_from_image_file(content) ==
    [frame_source_info |-> Deserialize(content.payload), image |-> content.image]

----------------------------------------------------------------------------
(* TinyDB table operations on the ordered table *)

DocIds(table) == {table[i].doc_id : i \in 1 .. Len(table)}

\* faulty variant: a get that falls back on the first document of the table
DbGetOrFirst(table, doc_id) ==
    IF doc_id \in DocIds(table) THEN SelectSeq(table, LAMBDA d : d.doc_id = doc_id)
    ELSE IF table = <<>> THEN <<>> ELSE <<table[1]>>

\* db.get(doc_id=...): a one-element sequence, or <<>> for None
DbGet(table, doc_id) == SelectSeq(table, LAMBDA d : d.doc_id = doc_id)

\* db.upsert(Document(..., doc_id)): update in place, else append
DbUpsert(table, doc) ==
    IF doc.doc_id \in DocIds(table)
    THEN [i \in 1 .. Len(table) |-> IF table[i].doc_id = doc.doc_id THEN doc ELSE table[i]]
    ELSE Append(table, doc)

DbRemoveIds(table, ids) == SelectSeq(table, LAMBDA d : d.doc_id \notin ids)

DbRemoveFilenames(table, names) == SelectSeq(table, LAMBDA d : d.filename \notin names)

\* faulty variant: the key taken from the source file alone, without the index
insert_keyed_by_source_file(table, filename, fsi) ==
    DbUpsert(table, [doc_id   |-> get_fixed_hash_from_frame_source_info(fsi.source_file),
                     filename |-> filename,
                     data     |-> Serialize(fsi)])

insert_filename_and_fsi_into_database(table, filename, fsi) ==
    DbUpsert(table, [doc_id   |-> get_fixed_hash_from_frame_source_info(get_source_identifier(fsi)),
                     filename |-> filename,
                     data     |-> Serialize(fsi)])

----------------------------------------------------------------------------
(* CacheDict(buffer_length=query_cache_size): the bounded cache of results *)

query_cache_size == 3

CacheKeys(c) == {c[i].key : i \in 1 .. Len(c)}

\* position of a key the cache holds
CacheIndex(c, key) == (CHOOSE i \in 1 .. Len(c) : c[i].key = key)

\* cache[key]: the hit becomes the most recently used entry
CacheGet(c, key) ==
    SelectSeq(c, LAMBDA e : e.key # key) \o <<c[CacheIndex(c, key)]>>

\* faulty variant: a cache that never evicts
CachePutUnbounded(c, key, value) ==
    SelectSeq(c, LAMBDA e : e.key # key) \o <<[key |-> key, value |-> value]>>

\* cache[key] = value: the oldest entries leave once the capacity is exceeded
CachePut(c, key, value) ==
    LET put == SelectSeq(c, LAMBDA e : e.key # key) \o <<[key |-> key, value |-> value]>>
    IN  IF Len(put) > query_cache_size
        THEN SubSeq(put, Len(put) - query_cache_size + 1, Len(put))
        ELSE put

----------------------------------------------------------------------------
(* update_cache: the index after a reconcile with the folder *)

FilenamesInDb(table) == {table[i].filename : i \in 1 .. Len(table)}

\* the for loop over a set: the files are inserted in any order
RECURSIVE InsertInAnyOrder(_, _, _)
InsertInAnyOrder(table, files, names) ==
    IF names = {} THEN {table}
    ELSE UNION {InsertInAnyOrder(
                    insert_filename_and_fsi_into_database(
                        table, f, load_from_image_file(files[f]).frame_source_info),
                    files, names \ {f}) : f \in names}

\* the tables update_cache can leave
update_cache(table, files) ==
    LET filenames == {f \in DOMAIN files : is_image_path(f)}
        filenames_in_db == FilenamesInDb(table)
    IN  InsertInAnyOrder(DbRemoveFilenames(table, filenames_in_db \ filenames),
                         files, filenames \ filenames_in_db)

\* faulty variant: the dirty flag is not looked at
LazyUpdateSkipped(table, files, isDirty) == {table}

\* the read paths that check _cache_dirty
LazyUpdate(table, files, isDirty) == IF isDirty THEN update_cache(table, files) ELSE {table}

----------------------------------------------------------------------------
(* str.split(';') on a token string *)

RECURSIVE Split(_)
Split(path) ==
    IF \A i \in 1 .. Len(path) : path[i] # ";" THEN <<path>>
    ELSE LET i == CHOOSE j \in 1 .. Len(path) :
                      path[j] = ";" /\ \A k \in 1 .. j - 1 : path[k] # ";"
         IN  <<SubSeq(path, 1, i - 1)>> \o Split(SubSeq(path, i + 1, Len(path)))

RECURSIVE Join(_)
Join(paths) ==
    IF Len(paths) = 1 THEN paths[1]
    ELSE paths[1] \o <<";">> \o Join(Tail(paths))

----------------------------------------------------------------------------
(* The queries *)

DeserializeAll(docs) == [i \in 1 .. Len(docs) |-> Deserialize(docs[i].data)]

\* query_annotation_data(None)
query_annotation_data(table) == DeserializeAll(table)

\* the index scan of query_annotation_data_from_path, on a cache miss
ScanFromPath(table, path) ==
    LET paths == Split(path)
        pathSet == {paths[i] : i \in 1 .. Len(paths)}
        shortlist == DeserializeAll(SelectSeq(table, LAMBDA d : d.data.source_file \in pathSet))
        \* a dict comprehension: the last position of a repeated path stays
        path_to_index(p) == (CHOOSE i \in 1 .. Len(paths) :
                                paths[i] = p /\ \A j \in i + 1 .. Len(paths) : paths[j] # p) - 1
    IN  IF Len(paths) = 1 THEN shortlist
        ELSE [i \in 1 .. Len(shortlist) |->
                [shortlist[i] EXCEPT !.source_file = path,
                                     !.source_index = path_to_index(shortlist[i].source_file)]]

\* what query_annotation_data_from_path returns
query_annotation_data_from_path(table, c, path) ==
    IF path \in CacheKeys(c) THEN c[CacheIndex(c, path)].value ELSE ScanFromPath(table, path)

\* str.strip()
RECURSIVE Strip(_)
Strip(text) ==
    IF text # <<>> /\ text[1] = " " THEN Strip(Tail(text))
    ELSE IF text # <<>> /\ text[Len(text)] = " " THEN Strip(SubSeq(text, 1, Len(text) - 1))
    ELSE text

\* Query().search(text) is re.search(text, value): text is a regular
\* expression, of which "." stands for any one character
Search(text, value) ==
    \E i \in 1 .. Len(value) - Len(text) + 1 :
        \A j \in 1 .. Len(text) : text[j] = "." \/ text[j] = value[i + j - 1]

\* query_text_in_any_field (no record here has a record_query, a description or tags)
query_text_in_any_field(table, text) ==
    LET t == Strip(text)
    IN  IF t = <<>> THEN query_annotation_data(table)
        ELSE DeserializeAll(SelectSeq(table, LAMBDA d :
                \/ Search(t, d.data.source_file)
                \/ /\ ~d.data.annotations.isNone
                   /\ \E i \in 1 .. Len(d.data.annotations.items) :
                         Search(t, <<d.data.annotations.items[i]>>)))

----------------------------------------------------------------------------
(* The calls *)

Identifiers == {get_source_identifier(r) : r \in Records} \cup {<<"n">>}

QueryList == <<PathA, PathB, Join(<<PathC, PathB>>), Join(<<PathB, PathC, PathA>>),
               Join(<<PathB, PathB>>), PathC>>

QueryInputs == {QueryList[i] : i \in 1 .. NumQueryInputs}

Texts == {<<" ">>, <<"a">>}

None == [kind |-> "none", val |-> <<>>]
Value(v) == [kind |-> "value", val |-> <<v>>]
Raise(e) == [kind |-> "raise", val |-> <<e>>]

\* aux: for save the pixels handed in and whether the index held the key, for
\* delete the filename of the entry found, for lookup and load the dirty flag
\* found, for a path query the number of results the cache held
Call(op, arg, aux, ret) == [op |-> op, arg |-> arg, aux |-> aux, ret |-> ret]

Init ==
    /\ folder = <<>>
    /\ db = <<>>
    /\ cache = <<>>
    /\ dirty = TRUE
    /\ last = Call("init", <<>>, 0, None)

\* AnnotationDatabaseAccessor(root) on the root already in use
NewStore ==
    /\ cache' = <<>>
    /\ dirty' = TRUE
    /\ last' = Call("init", <<>>, 0, None)
    /\ UNCHANGED <<folder, db>>

\* the state save_annotated_image leaves: the file, the upsert, then the
\* print that takes len(annotations), then _clear_caches
SaveAnnotatedImage(fsi, image) ==
    LET filename == ImageFileName(fsi)
        SaveAux(r, img) ==
            [image |-> img,
             existed |-> get_fixed_hash_from_frame_source_info(get_source_identifier(r)) \in DocIds(db)]
    IN  /\ folder' = (filename :> ImageFileContent(fsi, image)) @@ folder
        /\ db' = insert_filename_and_fsi_into_database(db, filename, fsi)
        /\ IF fsi.annotations.isNone
           THEN /\ cache' = cache
                /\ last' = Call("save", fsi, SaveAux(fsi, image), Raise("TypeError"))
           ELSE /\ cache' = <<>>
                /\ last' = Call("save", fsi, SaveAux(fsi, image), Value(filename))
        /\ UNCHANGED dirty

save_annotated_image == \E fsi \in Records, image \in Images : SaveAnnotatedImage(fsi, image)

UpdateCache(full_clean) ==
    /\ cache' = IF full_clean THEN <<>> ELSE cache
    /\ db' \in update_cache(db, folder)
    /\ dirty' = FALSE
    /\ last' = Call("update_cache", <<>>, 0, None)
    /\ UNCHANGED folder

update_cache_call == \E full_clean \in BOOLEAN : UpdateCache(full_clean)

\* what lookup_frame_source_info_from_identifier returns on the updated table
LookupResult(table, source_identifier) ==
    LET full_json == DbGet(table, get_fixed_hash_from_frame_source_info(source_identifier))
    IN  IF full_json = <<>> THEN None ELSE Value(Deserialize(full_json[1].data))

LookupFrameSourceInfo(source_identifier) ==
    /\ db' \in LazyUpdate(db, folder, dirty)
    /\ dirty' = FALSE
    /\ last' = Call("lookup", source_identifier, dirty, LookupResult(db', source_identifier))
    /\ UNCHANGED <<folder, cache>>

lookup_frame_source_info_from_identifier ==
    \E source_identifier \in Identifiers : LookupFrameSourceInfo(source_identifier)

\* what load_frame_source_info_and_image returns on the updated table
LoadResult(table, files, frame_source_info_id) ==
    LET full_json == DbGet(table, get_fixed_hash_from_frame_source_info(frame_source_info_id))
    IN  IF full_json = <<>> THEN None
        ELSE IF full_json[1].filename \notin DOMAIN files
             THEN Raise("FileNotFoundError")
             ELSE Value(load_from_image_file(files[full_json[1].filename]))

LoadFrameSourceInfoAndImage(frame_source_info_id) ==
    /\ db' \in LazyUpdate(db, folder, dirty)
    /\ dirty' = FALSE
    /\ last' = Call("load", frame_source_info_id, dirty, LoadResult(db', folder, frame_source_info_id))
    /\ UNCHANGED <<folder, cache>>

load_frame_source_info_and_image ==
    \E frame_source_info_id \in Identifiers : LoadFrameSourceInfoAndImage(frame_source_info_id)

QueryAnnotationData ==
    /\ last' = Call("query", <<>>, 0, Value(query_annotation_data(db)))
    /\ UNCHANGED <<folder, db, cache, dirty>>

QueryTextInAnyField ==
    \E text \in Texts :
        /\ last' = Call("query_text", text, 0, Value(query_text_in_any_field(db, text)))
        /\ UNCHANGED <<folder, db, cache, dirty>>

QueryAnnotationDataFromPath(path) ==
    /\ cache' = IF path \in CacheKeys(cache) THEN CacheGet(cache, path)
                ELSE CachePut(cache, path, ScanFromPath(db, path))
    /\ last' = Call(IF path \in CacheKeys(cache) THEN "query_path_hit" ELSE "query_path_miss",
                    path, Len(cache), Value(query_annotation_data_from_path(db, cache, path)))
    /\ UNCHANGED <<folder, db, dirty>>

query_annotation_data_from_path_call == \E path \in QueryInputs : QueryAnnotationDataFromPath(path)

\* faulty variant: a delete that passes over a backing file that is missing
DeleteIgnoringMissingFile(source_identifier) ==
    LET hash_code == get_fixed_hash_from_frame_source_info(source_identifier)
        full_json == DbGet(db, hash_code)
    IN  IF full_json = <<>>
        THEN /\ last' = Call("delete", source_identifier, 0, Raise("KeyError"))
             /\ UNCHANGED <<folder, db, cache, dirty>>
        ELSE /\ db' = DbRemoveIds(db, {hash_code})
             /\ folder' = [f \in DOMAIN folder \ {full_json[1].filename} |-> folder[f]]
             /\ cache' = <<>>
             /\ last' = Call("delete", source_identifier, full_json[1].filename, None)
             /\ UNCHANGED dirty

DeleteAnnotationData(source_identifier) ==
    LET hash_code == get_fixed_hash_from_frame_source_info(source_identifier)
        full_json == DbGet(db, hash_code)
    IN  IF full_json = <<>>
        THEN \* db.remove(doc_ids=[hash_code]) raises on a missing document
             /\ last' = Call("delete", source_identifier, 0, Raise("KeyError"))
             /\ UNCHANGED <<folder, db, cache, dirty>>
        ELSE /\ db' = DbRemoveIds(db, {hash_code})
             /\ IF full_json[1].filename \in DOMAIN folder
                THEN /\ folder' = [f \in DOMAIN folder \ {full_json[1].filename} |-> folder[f]]
                     /\ cache' = <<>>
                     /\ last' = Call("delete", source_identifier, full_json[1].filename, None)
                ELSE \* os.remove raises, _clear_caches is not reached
                     /\ last' = Call("delete", source_identifier, full_json[1].filename,
                                      Raise("FileNotFoundError"))
                     /\ UNCHANGED <<folder, cache>>
             /\ UNCHANGED dirty

delete_annotation_data == \E source_identifier \in Identifiers : DeleteAnnotationData(source_identifier)

Next ==
    \/ NewStore
    \/ save_annotated_image
    \/ update_cache_call
    \/ lookup_frame_source_info_from_identifier
    \/ load_frame_source_info_and_image
    \/ delete_annotation_data

Spec == Init /\ [][Next]_vars

\* the runs that only save and delete
NextSaveDelete ==
    \/ save_annotated_image
    \/ delete_annotation_data

SpecSaveDelete == Init /\ [][NextSaveDelete]_vars

----------------------------------------------------------------------------
(* The store with its queries, on fewer records *)

QueryRecords == {r \in Records : ~r.annotations.isNone}

SaveForQuery == \E fsi \in QueryRecords : SaveAnnotatedImage(fsi, 0)

LookupForQuery == LookupFrameSourceInfo(get_source_identifier(FrameSourceInfo(PathB, 0, NoAnnotations)))

LoadForQuery == LoadFrameSourceInfoAndImage(get_source_identifier(FrameSourceInfo(PathB, 0, NoAnnotations)))

DeleteForQuery == \E fsi \in QueryRecords : DeleteAnnotationData(get_source_identifier(fsi))

NextQuery ==
    \/ NewStore
    \/ SaveForQuery
    \/ update_cache_call
    \/ LookupForQuery
    \/ LoadForQuery
    \/ QueryAnnotationData
    \/ QueryTextInAnyField
    \/ query_annotation_data_from_path_call
    \/ DeleteForQuery

SpecQuery == Init /\ [][NextQuery]_vars

----------------------------------------------------------------------------
(* The store whose image folder is also changed from outside the accessor *)

\* a container file is removed from the image folder behind the accessor
RemoveFileOutside ==
    \E f \in DOMAIN folder :
        /\ folder' = [g \in DOMAIN folder \ {f} |-> folder[g]]
        /\ last' = Call("remove_outside", f, 0, None)
        /\ UNCHANGED <<db, cache, dirty>>

NextOutside ==
    \/ SaveForQuery
    \/ update_cache_call
    \/ load_frame_source_info_and_image
    \/ DeleteForQuery
    \/ RemoveFileOutside

SpecOutside == Init /\ [][NextOutside]_vars

----------------------------------------------------------------------------
(* The store whose container write can fail *)

\* what a write that stopped partway leaves at the path it was writing
PartialFile == [partial |-> TRUE]

\* save_annotated_image when save_to_image_file raises: piexif.insert and
\* Image.save write to the final path itself, so the failure comes either
\* before the path was opened or with a part of the file written there; the
\* insert into the index is not reached
SaveWriteFails(fsi, image) ==
    LET filename == ImageFileName(fsi)
        existed == get_fixed_hash_from_frame_source_info(get_source_identifier(fsi)) \in DocIds(db)
    IN  /\ \/ folder' = folder
           \/ folder' = (filename :> PartialFile) @@ folder
        /\ last' = Call("save", fsi, [image |-> image, existed |-> existed], Raise("OSError"))
        /\ UNCHANGED <<db, cache, dirty>>

save_write_fails == \E fsi \in QueryRecords : SaveWriteFails(fsi, 0)

NextWriteFailure ==
    \/ SaveForQuery
    \/ save_write_fails
    \/ DeleteForQuery

SpecWriteFailure == Init /\ [][NextWriteFailure]_vars

----------------------------------------------------------------------------
(* file_utils.py: create_ulid_with_hash_randomness *)

\* ulid.constants
TIMESTAMP_LEN == 6
BYTES_LEN == 16

\* a & b on non-negative integers
RECURSIVE BitAnd(_, _)
BitAnd(a, b) ==
    IF a = 0 \/ b = 0 THEN 0
    ELSE (a % 2) * (b % 2) + 2 * BitAnd(a \div 2, b \div 2)

\* int.to_bytes(n, length, "big")
RECURSIVE ToBytes(_, _)
ToBytes(n, length) ==
    IF length = 0 THEN <<>> ELSE ToBytes(n \div 256, length - 1) \o <<n % 256>>

\* Optional[bytes]
NoBytes == [isNone |-> TRUE, bytes |-> <<>>]
SomeBytes(b) == [isNone |-> FALSE, bytes |-> b]

\* faulty variant: the first byte of the file hash written whole into byte 6
final_bytes_with_hash_in_byte_6(mtime, file_hash, grouping_hash) ==
    LET timestamp == ToBytes(mtime \div 2, TIMESTAMP_LEN)
    IN  SubSeq(timestamp, 1, 5)
        \o <<IF grouping_hash.isNone THEN 0 ELSE grouping_hash.bytes[1]>>
        \o <<file_hash[1]>>
        \o SubSeq(file_hash, 2, 10)

\* the 16 bytes the identifier is made of; mtime counts half milliseconds,
\* so that int(mtime*1000) is mtime \div 2
final_bytes(mtime, file_hash, grouping_hash) ==
    LET timestamp == ToBytes(mtime \div 2, TIMESTAMP_LEN)
        byte_5 == IF grouping_hash.isNone THEN 0 ELSE grouping_hash.bytes[1]
        byte_6 == IF grouping_hash.isNone THEN 0 ELSE BitAnd(grouping_hash.bytes[2], 254)
    IN  SubSeq(timestamp, 1, 5)
        \o <<byte_5>>
        \o <<BitAnd(byte_6, BitAnd(file_hash[1], 1))>>
        \o SubSeq(file_hash, 2, 10)

\* str(ULID): the 128 bits after two zero bits, five bits to a character
ENCODING == <<"0", "1", "2", "3", "4", "5", "6", "7", "8", "9", "A", "B", "C", "D", "E", "F",
              "G", "H", "J", "K", "M", "N", "P", "Q", "R", "S", "T", "V", "W", "X", "Y", "Z">>

UlidString(bytes) ==
    LET bit(k) == IF k <= 2 THEN 0
                  ELSE (bytes[(k - 3) \div 8 + 1] \div (2 ^ (7 - ((k - 3) % 8)))) % 2
        char(i) == 16 * bit(5 * i - 4) + 8 * bit(5 * i - 3) + 4 * bit(5 * i - 2)
                   + 2 * bit(5 * i - 1) + bit(5 * i)
    IN  [i \in 1 .. (8 * BYTES_LEN + 2) \div 5 |-> ENCODING[char(i) + 1]]

create_ulid_with_hash_randomness(mtime, file_hash, grouping_hash) ==
    IF Len(file_hash) < 10 THEN Raise("AssertionError")
    ELSE Value(UlidString(final_bytes(mtime, file_hash, grouping_hash)))

\* the three segments of the 16 bytes: 40 bits, 15 bits, 73 bits
TimestampSegment(bytes) == SubSeq(bytes, 1, 5)
GroupingSegment(bytes) == <<bytes[6], bytes[7] \div 2>>
RandomnessSegment(bytes) == <<bytes[7] % 2>> \o SubSeq(bytes, 8, BYTES_LEN)

\* the inputs: modification times in half milliseconds, file hashes that
\* differ from 1, 2, ..., 11 in one byte, one hash that is too short, and
\* grouping hashes of two bytes
Mtimes == {0, 1, 512, 70001}

FileHashes ==
    {[i \in 1 .. 11 |-> IF i = k THEN v ELSE i] : k \in {1, 2, 10, 11}, v \in {0, 255}}
    \cup {[i \in 1 .. 9 |-> i]}

GroupingHashes ==
    {NoBytes} \cup {SomeBytes(<<g0, g1>>) : g0 \in {0, 128}, g1 \in {0, 1, 2, 255}}

UlidArgs == [mtime : Mtimes, file_hash : FileHashes, grouping_hash : GroupingHashes]

CreateUlidResult(args) ==
    create_ulid_with_hash_randomness(args.mtime, args.file_hash, args.grouping_hash)

InitUlid ==
    /\ folder = <<>>
    /\ db = <<>>
    /\ cache = <<>>
    /\ dirty = TRUE
    /\ \E args \in UlidArgs : last = Call("ulid_input", args, 0, None)

\* a call on the arguments of the call before, one of them replaced or none
CreateUlidWithOther(changed, args) ==
    /\ last.op \in {"ulid_input", "create_ulid"}
    /\ last' = Call("create_ulid", args,
                     [changed |-> changed, prevArg |-> last.arg, prevRet |-> CreateUlidResult(last.arg)],
                     CreateUlidResult(args))
    /\ UNCHANGED <<folder, db, cache, dirty>>

CreateUlidAgain == CreateUlidWithOther("none", last.arg)

CreateUlidOtherMtime ==
    \E m \in Mtimes \ {last.arg.mtime} :
        CreateUlidWithOther("mtime", [last.arg EXCEPT !.mtime = m])

CreateUlidOtherFileHash ==
    \E h \in FileHashes \ {last.arg.file_hash} :
        CreateUlidWithOther("file_hash", [last.arg EXCEPT !.file_hash = h])

CreateUlidOtherGrouping ==
    \E g \in GroupingHashes \ {last.arg.grouping_hash} :
        CreateUlidWithOther("grouping_hash", [last.arg EXCEPT !.grouping_hash = g])

NextUlid ==
    \/ CreateUlidAgain
    \/ CreateUlidOtherMtime
    \/ CreateUlidOtherFileHash
    \/ CreateUlidOtherGrouping

SpecUlid == InitUlid /\ [][NextUlid]_vars

----------------------------------------------------------------------------
(* file_utils.py: get_hash_for_file *)

total_samples == 3

\* file.seek(position); file.read(size): the bytes up to the end of the file
ReadAt(file, position, size) ==
    SubSeq(file, position + 1, IF position + size > Len(file) THEN Len(file) ELSE position + size)

\* the reads at a sequence of positions, in order
RECURSIVE ReadAll(_, _, _)
ReadAll(file, positions, size) ==
    IF positions = <<>> THEN <<>>
    ELSE ReadAt(file, Head(positions), size) \o ReadAll(file, Tail(positions), size)

\* sample_position of the samples i = 0 .. total_samples - 1
SamplePositions(file_size, sample_size) ==
    [i \in 1 .. total_samples |->
        (file_size - sample_size) * ((i - 1) \div (total_samples - 1))]

\* what get_hash_for_file feeds hash_obj.update with, in order; the SHA-256
\* digest returned is taken collision-free, so the hash is this input
get_hash_for_file(file) ==
    LET file_size == Len(file)
        sample_size == byte_sampling_threshold \div total_samples
    IN  IF file_size < byte_sampling_threshold
        THEN <<file_size>> \o file
        ELSE <<file_size>> \o ReadAll(file, SamplePositions(file_size, sample_size), sample_size)

\* the files hashed: bytes 0 and 1
Files == UNION {[1 .. n -> {0, 1}] : n \in {2, MaxFileLen}}

InitHash ==
    /\ folder = <<>>
    /\ db = <<>>
    /\ cache = <<>>
    /\ dirty = TRUE
    /\ \E file \in Files : last = Call("file_input", file, 0, None)

\* the file is hashed as it is
HashFile ==
    /\ last.op \in {"file_input", "get_hash_for_file"}
    /\ last' = Call("get_hash_for_file", last.arg,
                     [changed |-> -1, prevArg |-> last.arg, prevRet |-> get_hash_for_file(last.arg)],
                     Value(get_hash_for_file(last.arg)))
    /\ UNCHANGED <<folder, db, cache, dirty>>

\* the byte at one offset of the file is changed and the file hashed again
HashFileWithOtherByte ==
    /\ last.op \in {"file_input", "get_hash_for_file"}
    /\ \E offset \in 0 .. Len(last.arg) - 1 :
          LET file == [last.arg EXCEPT ![offset + 1] = 1 - @]
          IN  last' = Call("get_hash_for_file", file,
                           [changed |-> offset, prevArg |-> last.arg,
                            prevRet |-> get_hash_for_file(last.arg)],
                           Value(get_hash_for_file(file)))
    /\ UNCHANGED <<folder, db, cache, dirty>>

NextHash ==
    \/ HashFile
    \/ HashFileWithOtherByte

SpecHash == InitHash /\ [][NextHash]_vars

----------------------------------------------------------------------------
(* annotated_image_serialization.py: the metadata block of a container file.
   Wall-clock times count half seconds, UTC offsets minutes, latitudes and
   longitudes thousandths of an arc second, altitudes millimetres. *)

GPSInfo(latitude, longitude, altitude) ==
    [latitude |-> latitude, longitude |-> longitude, altitude |-> altitude]

TiffImageMetadata(date_time, gps_info, jsonable_metadata) ==
    [date_time |-> date_time, gps_info |-> gps_info, jsonable_metadata |-> jsonable_metadata]

Abs(x) == IF x < 0 THEN -x ELSE x

\* strftime("%Y:%m:%d %H:%M:%S") of a wall-clock time: its whole seconds
Strftime(wall) == <<"s", wall \div 2>>

\* datetime.strptime(.., "%Y:%m:%d %H:%M:%S")
Strptime(text) == 2 * text[2]

\* date_time.astimezone(timezone.utc), as a wall-clock time
AsUtc(date_time) == date_time.wall - 120 * date_time.offset

\* json.dumps and json.loads of a mapping from string keys to strings, a
\* string being its characters: ensure_ascii writes a character that is not
\* ASCII ("e_acute") as its \u escape
JsonEscape(string) ==
    [i \in 1 .. Len(string) |-> IF string[i] = "e_acute" THEN "\\u00e9" ELSE string[i]]
JsonUnescape(string) ==
    [i \in 1 .. Len(string) |-> IF string[i] = "\\u00e9" THEN "e_acute" ELSE string[i]]
JsonDumps(obj) == <<"json", [k \in DOMAIN obj |-> JsonEscape(obj[k])]>>
JsonLoads(text) == [k \in DOMAIN text[2] |-> JsonUnescape(text[2][k])]

\* piexif UserComment.dump(text) and UserComment.load: the ASCII marker and
\* the text encoded as ASCII, a character that is not ASCII replaced by "?"
AsciiEncode(string) ==
    [i \in 1 .. Len(string) |-> IF string[i] = "e_acute" THEN "?" ELSE string[i]]
UserCommentDump(text) == <<"ASCII", [k \in DOMAIN text[2] |-> AsciiEncode(text[2][k])]>>
UserCommentLoad(comment) == <<"json", comment[2]>>

\* faulty variant: the hemisphere letter of a non-negative value, always
decimal_degree_to_dms_unsigned(value, loc) ==
    LET abs_value == Abs(value)
        deg == abs_value \div 3600000
        min == (abs_value - deg * 3600000) \div 60000
        sec == (abs_value - deg * 3600000 - min * 60000) \div 10
    IN  <<<< <<deg, 1>>, <<min, 1>>, <<sec, 100>> >>, loc[1]>>

decimal_degree_to_dms_num_dem(value, loc) ==
    LET abs_value == Abs(value)
        deg == abs_value \div 3600000
        min == (abs_value - deg * 3600000) \div 60000
        sec == (abs_value - deg * 3600000 - min * 60000) \div 10
    IN  <<<< <<deg, 1>>, <<min, 1>>, <<sec, 100>> >>, IF value < 0 THEN loc[2] ELSE loc[1]>>

\* num / dem of a rational whose denominator divides 1000, in thousandths
numdem_to_float(num_dem) == (num_dem[1] * 1000) \div num_dem[2]

\* the decimal degrees, or the AssertionError of a reference that is no
\* direction
dms_num_dem_to_decimal_degree(dms, loc) ==
    LET value == numdem_to_float(dms[1]) * 3600 + numdem_to_float(dms[2]) * 60
                 + numdem_to_float(dms[3])
    IN  IF loc \in {"S", "W"} THEN Value(-value)
        ELSE IF loc \in {"N", "E"} THEN Value(value)
        ELSE Raise("AssertionError")

metadata_to_exif_dict(metadata) ==
    LET date_time == metadata.date_time
        gps_info == metadata.gps_info
        hasLatLong == /\ gps_info.kind = "value"
                      /\ gps_info.val[1].latitude.kind = "value"
                      /\ gps_info.val[1].longitude.kind = "value"
        hasAltitude == gps_info.kind = "value" /\ gps_info.val[1].altitude.kind = "value"
        lat == decimal_degree_to_dms_num_dem(gps_info.val[1].latitude.val[1], <<"N", "S">>)
        long == decimal_degree_to_dms_num_dem(gps_info.val[1].longitude.val[1], <<"E", "W">>)
        altitude == gps_info.val[1].altitude.val[1]
    IN  [zeroth |-> IF date_time.kind = "value"
                    THEN ("DateTime" :> Strftime(AsUtc(date_time.val[1])))
                    ELSE <<>>,
         Exif |-> (IF metadata.jsonable_metadata.kind = "value"
                      /\ metadata.jsonable_metadata.val[1] # <<>>
                   THEN ("UserComment" :> UserCommentDump(JsonDumps(metadata.jsonable_metadata.val[1])))
                   ELSE <<>>)
                  @@ (IF date_time.kind = "value"
                      THEN ("DateTimeOriginal" :> Strftime(date_time.val[1].wall))
                      ELSE <<>>),
         GPS |-> (IF hasLatLong
                  THEN ("GPSLatitude" :> lat[1]) @@ ("GPSLatitudeRef" :> lat[2])
                       @@ ("GPSLongitude" :> long[1]) @@ ("GPSLongitudeRef" :> long[2])
                  ELSE <<>>)
                 @@ (IF hasAltitude
                     THEN ("GPSAltitudeRef" :> IF altitude >= 0 THEN 0 ELSE 1)
                          @@ ("GPSAltitude" :> <<Abs(altitude) \div 10, 100>>)
                     ELSE <<>>)]

\* dict.get(key, default)
Get(dict, key, default) == IF key \in DOMAIN dict THEN dict[key] ELSE default

\* load_tiff_metadata on the EXIF block piexif.load returns; a reference that
\* is missing is the str '', whose .decode raises inside the try
load_tiff_metadata(exif_data) ==
    LET json_metadata ==
            IF "UserComment" \in DOMAIN exif_data.Exif
            THEN Value(JsonLoads(UserCommentLoad(exif_data.Exif["UserComment"])))
            ELSE None
        datetime_local == Strptime(exif_data.zeroth["DateTime"])
        datetime_utc == Strptime(exif_data.zeroth["DateTime"])
        tz_offset == datetime_local - datetime_utc
        datetime_localized ==
            IF "DateTime" \in DOMAIN exif_data.zeroth
            THEN Value([wall |-> datetime_local, offset |-> tz_offset \div 120])
            ELSE None
        gps_entry == exif_data.GPS
        zero == <<0, 1>>
        latitude ==
            IF "GPSLatitudeRef" \notin DOMAIN gps_entry THEN Raise("AttributeError")
            ELSE dms_num_dem_to_decimal_degree(Get(gps_entry, "GPSLatitude", <<zero, zero, zero>>),
                                               gps_entry["GPSLatitudeRef"])
        longitude ==
            IF "GPSLongitudeRef" \notin DOMAIN gps_entry THEN Raise("AttributeError")
            ELSE dms_num_dem_to_decimal_degree(Get(gps_entry, "GPSLongitude", <<zero, zero, zero>>),
                                               gps_entry["GPSLongitudeRef"])
        altitude == numdem_to_float(Get(gps_entry, "GPSAltitude", zero))
        gps_info ==
            IF DOMAIN gps_entry = {} THEN None
            ELSE IF latitude.kind = "raise" \/ longitude.kind = "raise" THEN None
            ELSE Value(GPSInfo(latitude, longitude, Value(altitude)))
    IN  TiffImageMetadata(datetime_localized, gps_info, json_metadata)

\* the metadata encoded
WallTimes == {172800, 172801, 259199}
UtcOffsets == {-420, 0, 60, 330}
Degrees == {0, 1, 176400123, -442800999}
Altitudes == {0, 5, 12340, 12345, -5, -12340, -12345}

DateTimes == {None} \cup {Value([wall |-> w, offset |-> o]) : w \in WallTimes, o \in UtcOffsets}

LatLongs == {<<None, None>>} \cup {<<Value(x), Value(y)>> : x, y \in Degrees}

GPSInfos ==
    {None} \cup {Value(GPSInfo(ll[1], ll[2], a)) :
                     ll \in LatLongs, a \in {None} \cup {Value(x) : x \in Altitudes}}

JsonableMetadata ==
    {None, Value(<<>>), Value("source_file" :> <<"a", ".jpg">>),
     Value("description" :> <<"a", "e_acute">>)}

Metadata ==
    {TiffImageMetadata(d, g, j) : d \in DateTimes, g \in GPSInfos, j \in JsonableMetadata}

InitMetadata ==
    /\ folder = <<>>
    /\ db = <<>>
    /\ cache = <<>>
    /\ dirty = TRUE
    /\ \E metadata \in Metadata : last = Call("metadata_input", metadata, 0, None)

\* the metadata is written into a file (piexif.dump of metadata_to_exif_dict)
\* and read back from it (load_tiff_metadata)
SaveAndLoadMetadata ==
    /\ last.op = "metadata_input"
    /\ last' = Call("load_tiff_metadata", last.arg, metadata_to_exif_dict(last.arg),
                     Value(load_tiff_metadata(metadata_to_exif_dict(last.arg))))
    /\ UNCHANGED <<folder, db, cache, dirty>>

NextMetadata == SaveAndLoadMetadata

SpecMetadata == InitMetadata /\ [][NextMetadata]_vars

----------------------------------------------------------------------------
(* annotated_image_serialization.py: load_tiff_metadata on a metadata block
   one field of which is malformed *)

\* datetime.strptime raises ValueError on a text that is not in the format
StrptimeRaises(text) == text[1] # "s"

\* the call of load_tiff_metadata: the strptime of the 0th DateTime is in no
\* try, the reading of the GPS entries is
load_tiff_metadata_call(exif_data) ==
    IF "DateTime" \in DOMAIN exif_data.zeroth /\ StrptimeRaises(exif_data.zeroth["DateTime"])
    THEN Raise("ValueError")
    ELSE Value(load_tiff_metadata(exif_data))

\* the fields that are malformed in a block
Corruptions == {"none", "timestamp", "gps_reference", "gps_no_reference"}

\* a timestamp that is not "%Y:%m:%d %H:%M:%S"
MalformedDateTime == <<"2020-01-01T10:00:00">>

\* the block with a 0th DateTime in another format, with a latitude
\* reference that is no direction, or with a latitude and no reference
Corrupt(exif_data, corruption) ==
    CASE corruption = "none" -> exif_data
      [] corruption = "timestamp" ->
            [exif_data EXCEPT !.zeroth = ("DateTime" :> MalformedDateTime) @@ exif_data.zeroth]
      [] corruption = "gps_reference" ->
            [exif_data EXCEPT !.GPS = ("GPSLatitudeRef" :> "X") @@ exif_data.GPS]
      [] corruption = "gps_no_reference" ->
            [exif_data EXCEPT !.GPS =
                [k \in (DOMAIN exif_data.GPS \cup {"GPSLatitude"}) \ {"GPSLatitudeRef"} |->
                    IF k \in DOMAIN exif_data.GPS THEN exif_data.GPS[k]
                    ELSE << <<1, 1>>, <<0, 1>>, <<0, 100>> >>]]

\* the metadata whose blocks are malformed
MalformedMetadata ==
    {TiffImageMetadata(d, g, j) :
        d \in {None, Value([wall |-> 172800, offset |-> 0])},
        g \in {None, Value(GPSInfo(None, None, Value(12340))),
               Value(GPSInfo(Value(176400123), Value(-442800999), None)),
               Value(GPSInfo(Value(1), Value(0), Value(-5)))},
        j \in JsonableMetadata \ {Value(<<>>)}}

InitMalformed ==
    /\ folder = <<>>
    /\ db = <<>>
    /\ cache = <<>>
    /\ dirty = TRUE
    /\ \E metadata \in MalformedMetadata, corruption \in Corruptions :
          last = Call("malformed_input", [metadata |-> metadata, corruption |-> corruption],
                      Corrupt(metadata_to_exif_dict(metadata), corruption), None)

\* load_tiff_metadata of the file that holds the block
LoadMalformed ==
    /\ last.op = "malformed_input"
    /\ last' = Call("load_malformed", last.arg, last.aux, load_tiff_metadata_call(last.aux))
    /\ UNCHANGED <<folder, db, cache, dirty>>

NextMalformed == LoadMalformed

SpecMalformed == InitMalformed /\ [][NextMalformed]_vars

----------------------------------------------------------------------------
(* serialization.py: ISerializeableWithTransients, on the class of
   test_serialization.py that keeps a cache in a transient field.  A value
   is its type and its items; a float or an int has one item. *)

Scalar(type, val) == [type |-> type, items |-> <<val>>]
TupleOf(items) == [type |-> "tuple", items |-> items]
ListOf(items) == [type |-> "list", items |-> items]

\* a type hint: List[T], Tuple[T1, T2], float, int, Dict
Hint(type, args) == [type |-> type, args |-> args]

\* DataClassWithNumpyPreSerializer.serialize: a list or a tuple becomes the
\* list of its items serialized, a str, int or float is itself
RECURSIVE PreSerializerSerialize(_)
PreSerializerSerialize(obj) ==
    IF obj.type \in {"list", "tuple"}
    THEN ListOf([i \in DOMAIN obj.items |-> PreSerializerSerialize(obj.items[i])])
    ELSE obj

\* DataClassWithNumpyPreSerializer.deserialize(cls, data): list_deserialization,
\* tuple_deserialization, noop_deserialization
RECURSIVE PreSerializerDeserialize(_, _)
PreSerializerDeserialize(cls, data) ==
    IF cls.type = "List"
    THEN ListOf([i \in DOMAIN data.items |-> PreSerializerDeserialize(cls.args[1], data.items[i])])
    ELSE IF cls.type = "Tuple"
    THEN TupleOf([i \in DOMAIN data.items |-> PreSerializerDeserialize(cls.args[i], data.items[i])])
    ELSE data

\* MyCustomClass: its fields, their types and the default of the cache
MyCustomClassTypes ==
    ("score_id_pairs" :> Hint("List", <<Hint("Tuple", <<Hint("float", <<>>), Hint("int", <<>>)>>)>>))
    @@ ("_cached_score_range_to_id" :> Hint("Dict", <<>>))
MyCustomClassDefaults == ("_cached_score_range_to_id" :> <<>>)
get_transient_fields == {"_cached_score_range_to_id"}

MyCustomClass(score_id_pairs) ==
    ("score_id_pairs" :> score_id_pairs) @@ MyCustomClassDefaults

\* faulty variant: ICustomPreserializer.serialize with the transient fields
\* left in the mapping
serialize_with_transients_kept(obj) ==
    [k \in DOMAIN obj |->
        IF k \in get_transient_fields THEN obj[k] ELSE PreSerializerSerialize(obj[k])]

\* ISerializeableWithTransients.serialize on obj.__dict__
serialize_without_transients(obj) ==
    [k \in DOMAIN obj \ get_transient_fields |-> PreSerializerSerialize(obj[k])]

\* dict_to_dataclass(cls, data): the fields found in data deserialized by
\* their types, the others left to their defaults; a field with neither is
\* the TypeError of the constructor, raised as a DeserializationError
dict_to_dataclass(types, defaults, data) ==
    IF \E fld \in DOMAIN types : fld \notin DOMAIN data /\ fld \notin DOMAIN defaults
    THEN Raise("DeserializationError")
    ELSE Value([fld \in DOMAIN types |->
                    IF fld \in DOMAIN data
                    THEN PreSerializerDeserialize(types[fld], data[fld])
                    ELSE defaults[fld]])

\* [i for s, i in self.score_id_pairs if score_range[0] <= s < score_range[1]]
RECURSIVE IdsInRange(_, _)
IdsInRange(pairs, score_range) ==
    IF pairs = <<>> THEN <<>>
    ELSE LET s == Head(pairs).items[1].items[1]
             i == Head(pairs).items[2].items[1]
         IN  (IF score_range[1] <= s /\ s < score_range[2] THEN <<i>> ELSE <<>>)
             \o IdsInRange(Tail(pairs), score_range)

\* get_ids_for_score_range: the cache after the call
CacheAfterGetIds(obj, score_range) ==
    IF score_range \in DOMAIN obj["_cached_score_range_to_id"]
    THEN obj["_cached_score_range_to_id"]
    ELSE (score_range :> IdsInRange(obj["score_id_pairs"].items, score_range))
         @@ obj["_cached_score_range_to_id"]

\* scores in tenths
ScoreIdPair == {TupleOf(<<Scalar("float", s), Scalar("int", i)>>) : s \in {5, 6, 8}, i \in {1, 2}}
ScoreIdPairs ==
    {ListOf(<<>>)} \cup {ListOf(<<p>>) : p \in ScoreIdPair}
    \cup {ListOf(<<p, q>>) : p, q \in ScoreIdPair}
ScoreRanges == {<<5, 7>>, <<6, 9>>}

InitTransient ==
    /\ folder = <<>>
    /\ db = <<>>
    /\ cache = <<>>
    /\ dirty = TRUE
    /\ \E pairs \in ScoreIdPairs : last = Call("MyCustomClass", MyCustomClass(pairs), <<>>, None)

\* myobj.get_ids_for_score_range(score_range)
get_ids_for_score_range ==
    /\ last.op \in {"MyCustomClass", "get_ids_for_score_range"}
    /\ \E score_range \in ScoreRanges :
          LET after == CacheAfterGetIds(last.arg, score_range)
          IN  last' = Call("get_ids_for_score_range",
                           [last.arg EXCEPT !["_cached_score_range_to_id"] = after],
                           <<>>, Value(after[score_range]))
    /\ UNCHANGED <<folder, db, cache, dirty>>

\* ser = DataClassWithNumpyPreSerializer.serialize(myobj)
serialize_myobj ==
    /\ last.op \in {"MyCustomClass", "get_ids_for_score_range"}
    /\ last' = Call("serialize", last.arg, serialize_without_transients(last.arg), None)
    /\ UNCHANGED <<folder, db, cache, dirty>>

\* deser = DataClassWithNumpyPreSerializer.deserialize(MyCustomClass, ser)
deserialize_ser ==
    /\ last.op = "serialize"
    /\ last' = Call("deserialize", last.arg, last.aux,
                     dict_to_dataclass(MyCustomClassTypes, MyCustomClassDefaults, last.aux))
    /\ UNCHANGED <<folder, db, cache, dirty>>

NextTransient ==
    \/ get_ids_for_score_range
    \/ serialize_myobj
    \/ deserialize_ser

SpecTransient == InitTransient /\ [][NextTransient]_vars

----------------------------------------------------------------------------
(* annotation_database.py: query_text_in_any_field over records that have a
   nickname, annotation descriptions and annotation tags.  A string is the
   sequence of its characters. *)

Annotation(label, description, tags) ==
    [label |-> label, description |-> description, tags |-> tags]

\* the data of an index entry: record_query.nickname (None without a
\* record_query), source_file and annotations (None, or a list)
TextData(nickname, source_file, annotations) ==
    [nickname |-> nickname, source_file |-> source_file, annotations |-> annotations]

\* Query().any(text) with a str for argument: some element is in text, and
\* an element that is a str is in text when it is a substring of it
AnyIn(text, value) ==
    \E k \in 1 .. Len(value) :
        \E i \in 1 .. Len(text) - Len(value[k]) + 1 :
            SubSeq(text, i, i + Len(value[k]) - 1) = value[k]

\* the query built at lines 417-423, tested on the data of an entry
TextQuery(text, data) ==
    \/ data.nickname.kind = "value" /\ Search(text, data.nickname.val[1])
    \/ Search(text, data.source_file)
    \/ /\ data.annotations.kind = "value"
       /\ \E k \in 1 .. Len(data.annotations.val[1]) :
             Search(text, data.annotations.val[1][k].label)
    \/ /\ data.annotations.kind = "value"
       /\ \E k \in 1 .. Len(data.annotations.val[1]) :
             Search(text, data.annotations.val[1][k].description)
    \/ /\ data.annotations.kind = "value"
       /\ \E k \in 1 .. Len(data.annotations.val[1]) :
             AnyIn(text, data.annotations.val[1][k].tags)

\* query_text_in_any_field on an index of such entries
query_text_in_any_field_of(table, text) ==
    LET t == Strip(text)
    IN  IF t = <<>> THEN table ELSE SelectSeq(table, LAMBDA data : TextQuery(t, data))

FieldStrings == {<<>>, <<"b">>, <<"a", "b", "c">>}
TagLists == {<<>>, << <<"b">> >>, << <<"a", "b">> >>}
TextAnnotations ==
    {None, Value(<<>>)}
    \cup {Value(<<Annotation(l, d, g)>>) : l \in FieldStrings, d \in FieldStrings, g \in TagLists}
TextRecords ==
    {TextData(n, f, a) : n \in {None, Value(<<"b">>)},
                         f \in {<<"c">>, <<"a", "c">>},
                         a \in TextAnnotations}
QueryTexts == {<<>>, <<" ">>, <<"b">>, <<" ", "b", " ">>, <<"a", "b">>, <<"a", ".", "c">>}

InitText ==
    /\ folder = <<>>
    /\ db = <<>>
    /\ cache = <<>>
    /\ dirty = TRUE
    /\ \E data \in TextRecords : last = Call("text_index", <<data>>, 0, None)

\* db.query_text_in_any_field(text) on the index
query_text_in_any_field_call ==
    /\ last.op = "text_index"
    /\ \E text \in QueryTexts :
          last' = Call("query_text_in_any_field", last.arg, text,
                       Value(query_text_in_any_field_of(last.arg, text)))
    /\ UNCHANGED <<folder, db, cache, dirty>>

NextText == query_text_in_any_field_call

SpecText == InitText /\ [][NextText]_vars

----------------------------------------------------------------------------
(* annotation_database.py: the singleton store handle.  The state is the
   global DB_ACCESSOR_SINGLETON, the handle yielded to the with-body that is
   running (None outside any), and the number of handles constructed. *)

SingletonState(singleton, scope, constructed) ==
    [singleton |-> singleton, scope |-> scope, constructed |-> constructed]

\* AnnotationDatabaseAccessor(annotation_folder_path=.., source_data_base_path=..),
\* the n-th object
Accessor(annotation_folder_path, source_data_base_path, n) ==
    [annotation_folder_path |-> annotation_folder_path,
     source_data_base_path |-> source_data_base_path, id |-> n]

AnnotationFolderPaths == {<<"a">>, <<"b">>, <<"c">>}
SourceDataBasePaths == {None, Value(<<"s">>)}

\* get_annotation_db_singleton()
get_annotation_db_singleton(singleton) ==
    IF singleton = None THEN Raise("Exception") ELSE singleton

\* faulty variant: DB_ACCESSOR_SINGLETON after the with-body when the reset
\* is not in a finally clause
singleton_after_scope_without_finally(singleton, by_exception) ==
    IF by_exception THEN singleton ELSE None

\* DB_ACCESSOR_SINGLETON after the with-body: the finally clause resets it
\* whether the body returned or raised
singleton_after_scope(singleton, by_exception) == None

InitSingleton ==
    /\ folder = <<>>
    /\ db = <<>>
    /\ cache = <<>>
    /\ dirty = TRUE
    /\ last = Call("import", <<>>, SingletonState(None, None, 0), None)

\* with hold_annotation_db_singleton(annotation_folder_path) as db_accessor:
\* the raise of a second hold comes before the try, so nothing is reset
EnterHold(annotation_folder_path, source_data_base_path) ==
    LET state == last.aux
        accessor == Value(Accessor(annotation_folder_path, source_data_base_path,
                                   state.constructed + 1))
        args == <<annotation_folder_path, source_data_base_path>>
    IN  /\ state.constructed < MaxHolds
        /\ last' = IF state.singleton # None
                   THEN Call("hold", args, state, Raise("Exception"))
                   ELSE Call("hold", args,
                             SingletonState(accessor, accessor, state.constructed + 1), accessor)
        /\ UNCHANGED <<folder, db, cache, dirty>>

enter_hold ==
    \E annotation_folder_path \in AnnotationFolderPaths, source_data_base_path \in SourceDataBasePaths :
        EnterHold(annotation_folder_path, source_data_base_path)

GetSingleton ==
    /\ last' = Call("get", <<>>, last.aux, get_annotation_db_singleton(last.aux.singleton))
    /\ UNCHANGED <<folder, db, cache, dirty>>

\* the with-body returns, or raises (the exception goes on to the caller)
ExitHold(by_exception) ==
    LET state == last.aux
    IN  /\ state.scope # None
        /\ last' = Call("exit", by_exception,
                        SingletonState(singleton_after_scope(state.singleton, by_exception),
                                       None, state.constructed),
                        IF by_exception THEN Raise("BodyException") ELSE None)
        /\ UNCHANGED <<folder, db, cache, dirty>>

exit_hold == \E by_exception \in BOOLEAN : ExitHold(by_exception)

NextSingleton ==
    \/ enter_hold
    \/ GetSingleton
    \/ exit_hold

SpecSingleton == InitSingleton /\ [][NextSingleton]_vars

----------------------------------------------------------------------------
(* serialization.py: FileSerializer.from_json(path, klass) on a file system,
   which is the variable folder: the content of each path that exists *)

\* an object of a type the serializer has no function for
Unserializable == [type |-> "object", items |-> <<>>]

\* JSONSerializer.dumps and JSONSerializer.loads
JSONSerializerDumps(obj) ==
    IF obj = Unserializable THEN Raise("SerializationError")
    ELSE Value(<<"json", PreSerializerSerialize(obj)>>)
JSONSerializerLoads(cls, bytestr) == PreSerializerDeserialize(cls, bytestr[2])

\* a file of which only a part was written
PartialContent == <<"partial">>

\* the files without the one at path: os.remove(path)
Remove(files, path) == [f \in DOMAIN files \ {path} |-> files[f]]

\* the errors of the file system in a dump: none, of f.write, of shutil.move
DumpFailures == {"none", "write", "move"}

\* the file system FileSerializer.dump leaves, the temporary file removed by
\* hold_tempfile: the new content at path, or after an error the except
\* clause, which removes the file at path whenever one exists
FilesAfterDump(files, path, obj, failure) ==
    LET \* a move to another file system is a copy, which an error cuts short
        moved == IF failure = "move" THEN (path :> PartialContent) @@ files ELSE files
    IN  IF JSONSerializerDumps(obj).kind = "raise" \/ failure # "none"
        THEN Remove(moved, path)
        ELSE (path :> JSONSerializerDumps(obj).val[1]) @@ files

\* what dump returns or re-raises
DumpResult(obj, failure) ==
    IF JSONSerializerDumps(obj).kind = "raise" THEN JSONSerializerDumps(obj)
    ELSE IF failure = "write" THEN Raise("OSError")
    ELSE IF failure = "move" THEN Raise("PermissionError")
    ELSE None

DumpPaths == {<<"x", ".json">>, <<"y", ".json">>}
DumpClass == Hint("List", <<Hint("Tuple", <<Hint("float", <<>>), Hint("int", <<>>)>>)>>)
DumpObjects ==
    {Unserializable, ListOf(<<>>)}
    \cup {ListOf(<<TupleOf(<<Scalar("float", s), Scalar("int", 1)>>)>>) : s \in {5, 6}}

InitDump ==
    /\ folder = <<>>
    /\ db = <<>>
    /\ cache = <<>>
    /\ dirty = TRUE
    /\ last = Call("init", <<>>, 0, None)

\* FileSerializer.from_json(path, klass).dump(obj)
FileSerializerDump(path, obj, failure) ==
    /\ folder' = FilesAfterDump(folder, path, obj, failure)
    /\ last' = Call("dump", [path |-> path, obj |-> obj], failure, DumpResult(obj, failure))
    /\ UNCHANGED <<db, cache, dirty>>

file_serializer_dump ==
    \E path \in DumpPaths, obj \in DumpObjects, failure \in DumpFailures :
        FileSerializerDump(path, obj, failure)

\* FileSerializer.from_json(path, klass).load()
FileSerializerLoad(path) ==
    /\ last' = Call("load_file", path, 0,
                    IF path \in DOMAIN folder
                    THEN Value(JSONSerializerLoads(DumpClass, folder[path]))
                    ELSE Raise("FileNotFoundError"))
    /\ UNCHANGED <<folder, db, cache, dirty>>

file_serializer_load == \E path \in DumpPaths : FileSerializerLoad(path)

NextDump ==
    \/ file_serializer_dump
    \/ file_serializer_load

SpecDump == InitDump /\ [][NextDump]_vars

----------------------------------------------------------------------------
(* annotated_image_serialization.py: a latitude or longitude written as
   degrees, minutes and seconds and read back *)

\* one degree, in thousandths of an arc second
Degree == 3600000

\* whole degrees, with minutes and seconds at both ends of their ranges
DmsValues(degrees, limit) ==
    {sign * (d * Degree + m * 60000 + x) :
        sign \in {1, -1}, d \in degrees, m \in {0, 59}, x \in {0, 9, 10, 59999}}
    \cup {limit * Degree, -limit * Degree}

DmsInputs ==
    {[value |-> v, loc |-> <<"N", "S">>] : v \in DmsValues({0, 89}, 90)}
    \cup {[value |-> v, loc |-> <<"E", "W">>] : v \in DmsValues({0, 89, 179}, 180)}

InitDms ==
    /\ folder = <<>>
    /\ db = <<>>
    /\ cache = <<>>
    /\ dirty = TRUE
    /\ \E input \in DmsInputs : last = Call("dms_input", input, 0, None)

\* decimal_degree_to_dms_num_dem, then dms_num_dem_to_decimal_degree of what
\* it returned
DmsRoundTrip ==
    /\ last.op = "dms_input"
    /\ LET encoded == decimal_degree_to_dms_num_dem(last.arg.value, last.arg.loc)
       IN  last' = Call("dms_round_trip", last.arg, encoded,
                        dms_num_dem_to_decimal_degree(encoded[1], encoded[2]))
    /\ UNCHANGED <<folder, db, cache, dirty>>

NextDms == DmsRoundTrip

SpecDms == InitDms /\ [][NextDms]_vars

----------------------------------------------------------------------------
(* Properties *)

DocSet(table) == {table[i] : i \in 1 .. Len(table)}

\* C1 (store round trip): in the state a save(r, img) leaves, load of r's
\* identifier returns the record r and the image img, whichever table the
\* lazy update of that load produces.
C1_RoundTrip ==
    last.op = "save" =>
        \A t \in LazyUpdate(db, folder, dirty) :
            LET loaded == LoadResult(t, folder, get_source_identifier(last.arg))
            IN  /\ loaded.kind = "value"
                /\ loaded.val[1] = [frame_source_info |-> last.arg, image |-> last.aux.image]

\* C2 (delete completeness): in the state a delete(id) that returned leaves,
\* the file the entry named is gone and lookup of id returns None.
C2_DeleteCompleteness ==
    (last.op = "delete" /\ last.ret.kind = "none") =>
        /\ last.aux \notin DOMAIN folder
        /\ \A t \in LazyUpdate(db, folder, dirty) : LookupResult(t, last.arg).kind = "none"

\* C4 (index derivable from the folder): after saves and deletes the index
\* holds the entries that a reconcile of an empty index with the folder
\* would produce, in whichever order that reconcile inserts the files.
C4_IndexDerivable ==
    \A t \in update_cache(<<>>, folder) : DocSet(t) = DocSet(db)

\* C5 (reconcile postcondition): in the state update_cache leaves, every
\* entry names a file of the folder, every container file of the folder is
\* named by an entry, and the store is clean.
C5_ReconcilePost ==
    last.op = "update_cache" =>
        /\ \A i \in 1 .. Len(db) : db[i].filename \in DOMAIN folder
        /\ \A f \in DOMAIN folder : is_image_path(f) => f \in FilenamesInDb(db)
        /\ ~dirty

\* C9 (one container file per saved entry): after saves and deletes from an
\* empty root there are as many container files as index entries and each
\* file is the filename of exactly one entry.
C9_OneFilePerEntry ==
    /\ Cardinality(DOMAIN folder) = Len(db)
    /\ \A f \in DOMAIN folder : Cardinality({i \in 1 .. Len(db) : db[i].filename = f}) = 1

\* C10 (index key invariant): every entry is stored under the fixed hash of
\* the source identifier of the record it holds, no two entries hold the same
\* (source_file, source_index), and in the state a save leaves the entry of
\* the saved record's key is the filename save wrote and the saved record.
C10_IndexKey ==
    /\ \A i \in 1 .. Len(db) :
          db[i].doc_id = get_fixed_hash_from_frame_source_info(
                             get_source_identifier(Deserialize(db[i].data)))
    /\ \A i, j \in 1 .. Len(db) :
          (/\ db[i].data.source_file = db[j].data.source_file
           /\ db[i].data.source_index = db[j].data.source_index) => i = j
    /\ last.op = "save" =>
          LET entry == SelectSeq(db, LAMBDA d : /\ d.data.source_file = last.arg.source_file
                                                /\ d.data.source_index = last.arg.source_index)
          IN  /\ Len(entry) = 1
              /\ Deserialize(entry[1].data) = last.arg
              /\ entry[1].filename \in DOMAIN folder
              /\ load_from_image_file(folder[entry[1].filename]).frame_source_info = last.arg
              /\ last.ret.kind = "value" => entry[1].filename = last.ret.val[1]

\* a save of a key the index held, with other fields than the entry had
C10_Witness ==
    /\ last.op = "save"
    /\ last.aux.existed
    /\ last.ret.kind = "value"
    /\ \E f \in DOMAIN folder :
          /\ f # last.ret.val[1]
          /\ get_source_identifier(load_from_image_file(folder[f]).frame_source_info)
                = get_source_identifier(last.arg)
    /\ Len(db) >= 2

ReadOps == {"lookup", "load", "query", "query_text", "query_path_hit", "query_path_miss"}

QueryOps == {"query", "query_text", "query_path_hit", "query_path_miss"}

\* C3 as claimed: a store is dirty on construction and every read-path call
\* (lookup, load, query, query by text, query by paths) leaves it clean.
C3_EveryReadReconciles ==
    /\ last.op = "init" => dirty
    /\ last.op \in ReadOps => ~dirty

\* C3 amended: a store is dirty on construction; lookup and load, called while
\* the store is dirty, reconcile the index with the folder, read the
\* reconciled index and leave the store clean; the three queries read the
\* index as it is and leave the index and the dirty flag unchanged.
C3_LookupAndLoadReconcile ==
    /\ [](last.op = "init" => dirty)
    /\ [](last.op \in {"lookup", "load"} => ~dirty)
    /\ [][(dirty /\ last'.op \in {"lookup", "load"}) =>
            /\ db' \in update_cache(db, folder)
            /\ last'.op = "lookup" => last'.ret = LookupResult(db', last'.arg)
            /\ last'.op = "load" => last'.ret = LoadResult(db', folder', last'.arg)]_vars
    /\ [][last'.op \in QueryOps => (dirty' = dirty /\ db' = db)]_vars

\* a lookup that found the store dirty, and returned a record
C3_Witness ==
    /\ last.op = "lookup"
    /\ last.aux = TRUE
    /\ last.ret.kind = "value"
    /\ ~dirty

\* C6 (cached path-query results are never stale): in every state, for every
\* input, what query_annotation_data_from_path returns equals a scan of the
\* index as it is now.
C6_CacheNeverStale ==
    \A path \in QueryInputs :
        query_annotation_data_from_path(db, cache, path) = ScanFromPath(db, path)

\* the multi-path rewrite of C7, of a result against a table
IsRewriteOf(result, path, table) ==
    LET paths == Split(path)
        matching == SelectSeq(table, LAMBDA d :
                        \E i \in 1 .. Len(paths) : paths[i] = d.data.source_file)
    IN  /\ Len(result) = Len(matching)
        /\ \A i \in 1 .. Len(result) :
              IF Len(paths) = 1
              THEN result[i] = Deserialize(matching[i].data)
              ELSE /\ result[i].source_file = path
                   /\ result[i].source_index \in 0 .. Len(paths) - 1
                   /\ paths[result[i].source_index + 1] = matching[i].data.source_file
                   /\ result[i].annotations = matching[i].data.annotations

\* C7 (multi-path query rewrite): in every state, for every input, what
\* query_annotation_data_from_path returns is one record per index entry whose
\* source file is one of the sub-paths, rewritten to the whole input and the
\* position of the sub-path (unchanged for a single path).
C7_MultiPathRewrite ==
    \A path \in QueryInputs :
        IsRewriteOf(query_annotation_data_from_path(db, cache, path), path, db)

\* the same of the index scan alone, which is what a cache miss returns
C7_ScanRewrite ==
    \A path \in QueryInputs : IsRewriteOf(ScanFromPath(db, path), path, db)

\* C8 (cache bound): the cache never holds more than query_cache_size results,
\* a query is a hit exactly when the cache holds its input, a miss scans the
\* index, and a miss on a full cache evicts the least recently used input and
\* keeps the others, so that the evicted input misses when repeated.
C8_CacheBound ==
    /\ [](Len(cache) <= query_cache_size)
    /\ [](\A i, j \in 1 .. Len(cache) : cache[i].key = cache[j].key => i = j)
    /\ [][last'.op = "query_path_hit" =>
            /\ last'.arg \in CacheKeys(cache)
            /\ cache' = SelectSeq(cache, LAMBDA e : e.key # last'.arg)
                          \o <<[key |-> last'.arg, value |-> last'.ret.val[1]]>>]_vars
    /\ [][last'.op = "query_path_miss" =>
            /\ last'.arg \notin CacheKeys(cache)
            /\ last'.ret.val[1] = ScanFromPath(db, last'.arg)
            /\ IF Len(cache) = query_cache_size
               THEN /\ cache' = Tail(cache) \o <<[key |-> last'.arg, value |-> last'.ret.val[1]]>>
                    /\ cache[1].key \notin CacheKeys(cache')
               ELSE cache' = cache \o <<[key |-> last'.arg, value |-> last'.ret.val[1]]>>]_vars

\* a miss on a cache that was full
C8_Witness ==
    /\ last.op = "query_path_miss"
    /\ last.aux = query_cache_size
    /\ Len(cache) = query_cache_size

\* C11 (an unknown identifier is an absence): for every identifier that has no
\* entry in the index lookup and load read (the index after the lazy update of
\* a dirty store), both return None and neither raises, on an empty index and
\* on a populated one; and a lookup or load made of such an identifier did
\* return None.
C11_UnknownIsAbsence ==
    /\ \A id \in Identifiers : \A t \in LazyUpdate(db, folder, dirty) :
          get_fixed_hash_from_frame_source_info(id) \notin DocIds(t) =>
              /\ LookupResult(t, id) = None
              /\ LoadResult(t, folder, id) = None
    /\ (/\ last.op \in {"lookup", "load"}
        /\ get_fixed_hash_from_frame_source_info(last.arg) \notin DocIds(db)) => last.ret = None

\* a load of an identifier never saved, on a populated index
C11_Witness ==
    /\ last.op = "load"
    /\ last.arg = <<"n">>
    /\ Len(db) >= 2
    /\ last.ret = None

\* C12 (a missing backing file at load time is an absence): in a clean store,
\* for every identifier whose index entry names a file that is no longer in
\* the image folder, load returns None and does not raise.
C12_MissingFileIsAbsence ==
    ~dirty =>
        \A id \in Identifiers :
            LET full_json == DbGet(db, get_fixed_hash_from_frame_source_info(id))
            IN  (full_json # <<>> /\ full_json[1].filename \notin DOMAIN folder) =>
                    LoadResult(db, folder, id) = None

\* C15 (the two-step delete is never silently partial): a delete of an
\* identifier the index holds removes the entry and then removes the file the
\* entry names; whenever exactly one of the two removals took effect the call
\* raised, and a call that returned normally removed the entry and its file.
C15_DeleteNeverSilentlyPartial ==
    [][last'.op = "delete" =>
        LET hash_code == get_fixed_hash_from_frame_source_info(last'.arg)
            entryRemoved == hash_code \in DocIds(db) /\ hash_code \notin DocIds(db')
            fileRemoved == DOMAIN folder' # DOMAIN folder
        IN  /\ (entryRemoved # fileRemoved) => last'.ret.kind = "raise"
            /\ hash_code \in DocIds(db) =>
                  /\ entryRemoved
                  /\ last'.aux = DbGet(db, hash_code)[1].filename
                  /\ last'.aux \notin DOMAIN folder'
                  /\ last'.aux \in DOMAIN folder => fileRemoved
            /\ last'.ret.kind = "none" =>
                  /\ entryRemoved
                  /\ DOMAIN folder' = DOMAIN folder \ {last'.aux}
                  /\ fileRemoved]_vars

\* a delete that removed the entry, found the backing file gone and raised
C15_Witness ==
    /\ last.op = "delete"
    /\ last.ret = Raise("FileNotFoundError")
    /\ get_fixed_hash_from_frame_source_info(last.arg) \notin DocIds(db)
    /\ last.aux \notin DOMAIN folder

\* C13 (a failed save leaves the index unchanged): whenever save raises, the
\* index holds after the call exactly the entries it held before it.
C13_FailedSaveLeavesIndex ==
    [][(last'.op = "save" /\ last'.ret.kind = "raise") => db' = db]_vars

\* C14 (atomic container write): whenever save raises, the path of the
\* container holds what it held before the call or the complete new file,
\* and no path of the folder ever holds a partially written file.
C14_AtomicWrite ==
    [][(last'.op = "save" /\ last'.ret.kind = "raise") =>
        LET filename == ImageFileName(last'.arg)
        IN  /\ \A f \in DOMAIN folder' : folder'[f] # PartialFile
            /\ filename \in DOMAIN folder' =>
                  \/ filename \in DOMAIN folder /\ folder'[filename] = folder[filename]
                  \/ folder'[filename] = ImageFileContent(last'.arg, last'.aux.image)]_vars

\* the 16 bytes of the identifier made from the arguments of a call
BytesOf(args) == final_bytes(args.mtime, args.file_hash, args.grouping_hash)

\* C16 (segment independence of the content identifier): the identifier is a
\* function of (mtime, file hash, grouping hash): the same arguments give the
\* same identifier; another file hash leaves the timestamp and grouping
\* segments as they were, another mtime leaves the grouping and randomness
\* segments as they were, and another grouping hash leaves the timestamp and
\* randomness segments as they were.
C16_SegmentIndependence ==
    (/\ last.op = "create_ulid"
     /\ last.ret.kind = "value"
     /\ last.aux.prevRet.kind = "value") =>
        LET new == BytesOf(last.arg)
            old == BytesOf(last.aux.prevArg)
        IN  /\ last.ret = Value(UlidString(new))
            /\ last.aux.changed = "none" => last.ret = last.aux.prevRet
            /\ last.aux.changed = "file_hash" =>
                  /\ TimestampSegment(new) = TimestampSegment(old)
                  /\ GroupingSegment(new) = GroupingSegment(old)
            /\ last.aux.changed = "mtime" =>
                  /\ GroupingSegment(new) = GroupingSegment(old)
                  /\ RandomnessSegment(new) = RandomnessSegment(old)
            /\ last.aux.changed = "grouping_hash" =>
                  /\ TimestampSegment(new) = TimestampSegment(old)
                  /\ RandomnessSegment(new) = RandomnessSegment(old)

\* a call with another file hash that gave another identifier
C16_Witness ==
    /\ last.op = "create_ulid"
    /\ last.aux.changed = "file_hash"
    /\ last.ret.kind = "value"
    /\ last.aux.prevRet.kind = "value"
    /\ last.ret # last.aux.prevRet
    /\ ~last.arg.grouping_hash.isNone
    /\ last.arg.mtime >= 512

\* C17 (15 grouping bits): byte 5 of the identifier is byte 0 of the grouping
\* hash and the upper 7 bits of byte 6 are the upper 7 bits of its byte 1,
\* bytes 7 to 15 are bytes 1 to 9 of the file hash, and two grouping hashes
\* that differ in one of their first 15 bits give, with the same mtime and
\* file hash, different identifiers.
C17_GroupingBits ==
    (/\ last.op = "create_ulid"
     /\ last.ret.kind = "value"
     /\ last.aux.prevRet.kind = "value") =>
        LET new == BytesOf(last.arg)
            g == last.arg.grouping_hash
            h == last.aux.prevArg.grouping_hash
        IN  /\ SubSeq(new, 8, BYTES_LEN) = SubSeq(last.arg.file_hash, 2, 10)
            /\ ~g.isNone => GroupingSegment(new) = <<g.bytes[1], g.bytes[2] \div 2>>
            /\ (/\ last.aux.changed = "grouping_hash"
                /\ ~g.isNone
                /\ ~h.isNone
                /\ <<g.bytes[1], g.bytes[2] \div 2>> # <<h.bytes[1], h.bytes[2] \div 2>>) =>
                    last.ret # last.aux.prevRet

\* the sample positions C18 states: i * (length - sample_size) / (S - 1)
ClaimedPositions(file_size, sample_size) ==
    [i \in 1 .. total_samples |->
        ((i - 1) * (file_size - sample_size)) \div (total_samples - 1)]

\* C18 (sampled content hash positions): a file shorter than the threshold T
\* is hashed as its length and all its bytes; a file of length L >= T is
\* hashed as its length and then the S samples of T/S bytes at the offsets
\* i*(L - T/S)/(S-1), i = 0..S-1, in order, so that changing a byte inside
\* one of those S windows changes the hash.
C18_SamplePositions ==
    last.op = "get_hash_for_file" =>
        LET file == last.arg
            file_size == Len(file)
            sample_size == byte_sampling_threshold \div total_samples
            positions == ClaimedPositions(file_size, sample_size)
        IN  IF file_size < byte_sampling_threshold
            THEN last.ret = Value(<<file_size>> \o file)
            ELSE /\ last.ret = Value(<<file_size>> \o ReadAll(file, positions, sample_size))
                 /\ (\E i \in 1 .. total_samples :
                        /\ last.aux.changed >= positions[i]
                        /\ last.aux.changed < positions[i] + sample_size) =>
                            last.ret # Value(last.aux.prevRet)

\* C19 (timezone offset reconstruction): a timestamp with UTC offset o is
\* decoded from the block it was encoded into as a timestamp with UTC offset
\* o, the difference of the stored local copy and the stored UTC copy.
C19_TimezoneOffset ==
    (last.op = "load_tiff_metadata" /\ last.arg.date_time.kind = "value") =>
        LET decoded == last.ret.val[1].date_time
            exif == last.aux
        IN  /\ decoded.kind = "value"
            /\ decoded.val[1].offset = last.arg.date_time.val[1].offset
            /\ 120 * decoded.val[1].offset
                  = Strptime(exif.Exif["DateTimeOriginal"]) - Strptime(exif.zeroth["DateTime"])

\* C20 (signed altitude round trip): an altitude a, negative or not, is
\* decoded from the block it was encoded into as an altitude within 1 cm of
\* a, and of the sign of a.
C20_SignedAltitude ==
    (/\ last.op = "load_tiff_metadata"
     /\ last.arg.gps_info.kind = "value"
     /\ last.arg.gps_info.val[1].altitude.kind = "value") =>
        LET decoded == last.ret.val[1].gps_info
            a == last.arg.gps_info.val[1].altitude.val[1]
        IN  /\ decoded.kind = "value"
            /\ decoded.val[1].altitude.kind = "value"
            /\ Abs(decoded.val[1].altitude.val[1] - a) <= 10
            /\ a < 0 => decoded.val[1].altitude.val[1] <= 0

\* C21 (latitude/longitude round trip): a latitude in [-90, 90] or longitude
\* in [-180, 180] is encoded as degrees, minutes and seconds over 100 plus a
\* hemisphere letter, and decoding that returns a value of the same sign that
\* differs from the original by less than 1e-4 degree (360 thousandths of an
\* arc second).
C21_LatLongRoundTrip ==
    last.op = "dms_round_trip" =>
        LET value == last.arg.value
            dms == last.aux[1]
        IN  /\ dms[1][2] = 1 /\ dms[2][2] = 1 /\ dms[3][2] = 100
            /\ dms[2][1] \in 0 .. 59
            /\ dms[3][1] \in 0 .. 5999
            /\ last.aux[2] = IF value < 0 THEN last.arg.loc[2] ELSE last.arg.loc[1]
            /\ last.ret.kind = "value"
            /\ Abs(last.ret.val[1] - value) < 360
            /\ value > 0 => last.ret.val[1] >= 0
            /\ value < 0 => last.ret.val[1] <= 0

\* a negative value that lost its thousandths and kept its sign
C21_Witness ==
    /\ last.op = "dms_round_trip"
    /\ last.arg.value < -89 * Degree
    /\ last.ret.kind = "value"
    /\ last.ret.val[1] # last.arg.value
    /\ last.ret.val[1] < 0

\* C22 (the payload round trip is exact): the payload decoded from the block
\* a metadata was encoded into equals the payload encoded, the empty mapping
\* and payloads with non-ASCII strings included, and is None only when the
\* metadata had no payload.
C22_PayloadRoundTrip ==
    last.op = "load_tiff_metadata" =>
        last.ret.val[1].jsonable_metadata = last.arg.jsonable_metadata

\* the same of the payloads that are not empty
C22_NonEmptyPayloadRoundTrip ==
    (/\ last.op = "load_tiff_metadata"
     /\ last.arg.jsonable_metadata # Value(<<>>)) =>
        last.ret.val[1].jsonable_metadata = last.arg.jsonable_metadata


\* C23: when the timestamp field or the GPS sub-block of a metadata block is
\* malformed, the decode does not fail: it returns the payload and the
\* well-formed one of timestamp and position as they decode from the block
\* without the fault, and only the malformed field is absent
C23_FieldErrorsRecovered ==
    last.op = "load_malformed" =>
        LET sound == load_tiff_metadata(metadata_to_exif_dict(last.arg.metadata))
            faulty == last.arg.corruption
        IN  /\ last.ret.kind = "value"
            /\ last.ret.val[1].jsonable_metadata = sound.jsonable_metadata
            /\ faulty = "timestamp" =>
                    /\ last.ret.val[1].date_time = None
                    /\ last.ret.val[1].gps_info = sound.gps_info
            /\ faulty \in {"gps_reference", "gps_no_reference"} =>
                    /\ last.ret.val[1].gps_info = None
                    /\ last.ret.val[1].date_time = sound.date_time
            /\ faulty = "none" => last.ret.val[1] = sound

\* the part of C23 that the decode keeps: a malformed GPS sub-block costs the
\* position alone
C23_GpsErrorsRecovered ==
    (last.op = "load_malformed" /\ last.arg.corruption \in {"gps_reference", "gps_no_reference"}) =>
        LET sound == load_tiff_metadata(metadata_to_exif_dict(last.arg.metadata))
        IN  /\ last.ret.kind = "value"
            /\ last.ret.val[1].jsonable_metadata = sound.jsonable_metadata
            /\ last.ret.val[1].gps_info = None
            /\ last.ret.val[1].date_time = sound.date_time


\* C24: a value of a class with transient fields serializes to a mapping
\* that has every field but the transient ones, and the mapping
\* deserializes to a value whose transient fields hold their defaults and
\* whose other fields equal the original's
C24_TransientExclusion ==
    /\ last.op \in {"serialize", "deserialize"} =>
           DOMAIN last.aux = DOMAIN last.arg \ get_transient_fields
    /\ last.op = "deserialize" =>
           /\ last.ret.kind = "value"
           /\ DOMAIN last.ret.val[1] = DOMAIN last.arg
           /\ \A fld \in DOMAIN last.arg :
                 last.ret.val[1][fld] = IF fld \in get_transient_fields
                                        THEN MyCustomClassDefaults[fld]
                                        ELSE last.arg[fld]

\* an object with scores and a filled cache has been serialized and
\* deserialized
C24_Witness ==
    /\ last.op = "deserialize"
    /\ last.arg["_cached_score_range_to_id"] # <<>>
    /\ Len(last.arg["score_id_pairs"].items) = 2
    /\ last.ret.kind = "value"
    /\ last.ret.val[1]["_cached_score_range_to_id"] = <<>>


\* C25: for a text that is not blank the free-text query returns exactly the
\* records in which the stripped text is a substring of the nickname, of the
\* source path, or of a label, a description or a tag of some annotation;
\* for a blank text it returns every record
C25_FreeTextQuery ==
    last.op = "query_text_in_any_field" =>
        LET t == Strip(last.aux)
            Occurs(value) ==
                \E i \in 1 .. Len(value) - Len(t) + 1 : SubSeq(value, i, i + Len(t) - 1) = t
            Matches(data) ==
                \/ data.nickname.kind = "value" /\ Occurs(data.nickname.val[1])
                \/ Occurs(data.source_file)
                \/ /\ data.annotations.kind = "value"
                   /\ \E k \in 1 .. Len(data.annotations.val[1]) :
                         LET annotation == data.annotations.val[1][k]
                         IN  \/ Occurs(annotation.label)
                             \/ Occurs(annotation.description)
                             \/ \E g \in 1 .. Len(annotation.tags) : Occurs(annotation.tags[g])
        IN  last.ret.val[1] = IF t = <<>> THEN last.arg
                              ELSE SelectSeq(last.arg, Matches)

\* the part of C25 that the query keeps: a blank text returns every record,
\* and a text without "." that occurs in the nickname, the path, a label or
\* a description returns the record
C25_BlankAndLiteralText ==
    last.op = "query_text_in_any_field" =>
        LET t == Strip(last.aux)
            Occurs(value) ==
                \E i \in 1 .. Len(value) - Len(t) + 1 : SubSeq(value, i, i + Len(t) - 1) = t
            Matches(data) ==
                \/ data.nickname.kind = "value" /\ Occurs(data.nickname.val[1])
                \/ Occurs(data.source_file)
                \/ /\ data.annotations.kind = "value"
                   /\ \E k \in 1 .. Len(data.annotations.val[1]) :
                         \/ Occurs(data.annotations.val[1][k].label)
                         \/ Occurs(data.annotations.val[1][k].description)
        IN  /\ t = <<>> => last.ret.val[1] = last.arg
            /\ (t # <<>> /\ Matches(last.arg[1])) => last.ret.val[1] = last.arg


\* C26: a deleted identifier stays deleted.  The index loses an entry by a
\* delete alone, so an identifier without entry whose file is in the folder
\* has been deleted: no step other than a save of that identifier (a
\* reconcile, explicit or of a lookup or load, on this store or on a new
\* one) gives an identifier without entry an entry again.
C26_DeletedStaysDeleted ==
    [][\A id \in Identifiers :
          (/\ LookupResult(db, id) = None
           /\ ~(last'.op = "save" /\ get_source_identifier(last'.arg) = id))
          => LookupResult(db', id) = None]_vars

\* the step of C26 next to its delete: a delete that returned leaves the
\* identifier without entry
C26_DeleteRemovesEntry ==
    (last.op = "delete" /\ last.ret.kind = "none") => LookupResult(db, last.arg) = None

\* C27: the latest save wins across reconcile.  In the state a save leaves,
\* the entry of the saved identifier holds the saved record, and no
\* reconcile (explicit, of a lookup or load, or after a new store on the
\* root) changes the record that lookup returns for an identifier or the
\* record that load returns for it.
C27_LatestSaveWins ==
    /\ [](last.op = "save" =>
            LookupResult(db, get_source_identifier(last.arg)) = Value(last.arg))
    /\ [][last'.op \in {"init", "update_cache", "lookup", "load"} =>
            \A id \in Identifiers :
                LookupResult(db, id).kind = "value" =>
                    /\ LookupResult(db', id) = LookupResult(db, id)
                    /\ LoadResult(db, folder, id).kind = "value" =>
                           LoadResult(db', folder', id) = LoadResult(db, folder, id)]_vars

\* the part of C27 that the store keeps: right after a save the entry holds
\* the saved record
C27_SaveSetsEntry ==
    last.op = "save" => LookupResult(db, get_source_identifier(last.arg)) = Value(last.arg)

\* C28: save accepts a record whose annotations are absent: it writes the
\* file, upserts the entry, clears the path-query cache and returns the
\* path of the file without raising
C28_SaveAcceptsAbsentAnnotations ==
    (last.op = "save" /\ last.arg.annotations.isNone) =>
        /\ ImageFileName(last.arg) \in DOMAIN folder
        /\ LookupResult(db, get_source_identifier(last.arg)) = Value(last.arg)
        /\ cache = <<>>
        /\ last.ret = Value(ImageFileName(last.arg))

\* the part of C28 that save does before it raises: the file and the entry
C28_FileAndEntryWritten ==
    (last.op = "save" /\ last.arg.annotations.isNone) =>
        /\ ImageFileName(last.arg) \in DOMAIN folder
        /\ LookupResult(db, get_source_identifier(last.arg)) = Value(last.arg)


\* C29: the singleton store handle.  The handle held is the handle of the
\* hold scope that is running, and none is held outside any scope; get
\* returns the held handle inside a scope and raises outside; a hold entered
\* while a handle is held raises and leaves that handle held; the exit of
\* the scope, by return or by exception, leaves no handle held; and a hold
\* entered while none is held succeeds and holds the handle it returns.
C29_SingletonHandle ==
    /\ [](/\ last.aux.singleton = last.aux.scope
          /\ last.op = "get" =>
                last.ret = IF last.aux.scope = None THEN Raise("Exception") ELSE last.aux.scope)
    /\ [][/\ (last'.op = "hold" /\ last.aux.singleton # None) =>
                /\ last'.ret.kind = "raise"
                /\ last'.aux.singleton = last.aux.singleton
          /\ (last'.op = "hold" /\ last.aux.singleton = None) =>
                /\ last'.ret.kind = "value"
                /\ last'.aux.singleton = last'.ret
          /\ last'.op = "exit" => last'.aux.singleton = None]_vars

\* a second hold has succeeded after the scope of the first was left
C29_Witness ==
    /\ last.op = "hold"
    /\ last.ret.kind = "value"
    /\ last.ret.val[1].id = 2
    /\ last.aux.singleton = last.ret

\* a hold has been refused while a handle was held, and the handle is still
\* the one get returns
C29_WitnessRefused ==
    /\ last.op = "hold"
    /\ last.ret.kind = "raise"
    /\ get_annotation_db_singleton(last.aux.singleton) = last.aux.scope
    /\ last.aux.scope # None


\* C30: a dump that fails destroys no earlier data: when dump raises, a
\* file that was at the target path before the call is still there with the
\* content it had, and no path ever holds a partially written file
C30_DumpKeepsEarlierData ==
    /\ [][(last'.op = "dump" /\ last'.ret.kind = "raise" /\ last'.arg.path \in DOMAIN folder) =>
            /\ last'.arg.path \in DOMAIN folder'
            /\ folder'[last'.arg.path] = folder[last'.arg.path]]_vars
    /\ [](\A path \in DOMAIN folder : folder[path] # PartialContent)

\* the part of C30 that dump keeps: no path holds a partially written file,
\* and a dump that fails leaves the other paths as they were
C30_NeverPartial ==
    /\ [](\A path \in DOMAIN folder : folder[path] # PartialContent)
    /\ [][(last'.op = "dump" /\ last'.ret.kind = "raise") =>
            \A path \in DumpPaths \ {last'.arg.path} :
                /\ path \in DOMAIN folder' <=> path \in DOMAIN folder
                /\ path \in DOMAIN folder => folder'[path] = folder[path]]_vars

====
